---- MODULE Spec2Model ----
(***************************************************************************)
(* Model of stayup (src/src/main.rs): a TCP presence service.              *)
(*   main             creates the channel, spawns the listener thread and  *)
(*                    runs manage_wakelock on the main thread;             *)
(*   listen_for_clients  binds, accepts, spawns one handle_client thread   *)
(*                    per accepted connection with a clone of the Sender;  *)
(*   handle_client    greets, sends +1, runs the staleness loop, sends -1; *)
(*   manage_wakelock  sums the received deltas into num_clients and        *)
(*                    creates / removes the wakelock file.                 *)
(* A panic of the main thread ends the process, so every thread stops;     *)
(* a panic of a spawned thread ends that thread only and drops what it     *)
(* owns (its Sender clone, its TcpStream).                                 *)
(***************************************************************************)
EXTENDS Integers, Sequences, FiniteSets, TLC

\* ---- bounds ----
\* Number of connections the listener can accept in a run.
NumSessions == 2

\* Longest event sequence fed to manage_wakelock on its own.
MaxEvents == 5

\* ---- program constants ----
\* `while staleness <= 5`
MaxStaleness == 5

Sessions == 1..NumSessions
\* Identity of the listener thread as a holder of the Sender.
Listener == 0

VARIABLES
    listener,     \* listener thread: "binding", "accepting", "stopped" (accept
                  \* loop left), "panicked" (bind failed)
    senders,      \* threads holding a live Sender<i64> (Listener and/or sessions)
    chan,         \* the mpsc channel: FIFO of deltas sent and not yet received
    coord,        \* main thread in manage_wakelock: "start", "recv", "aborted"
    abortReason,  \* which unwrap()/panic! ended the main thread ("none" if none)
    num_clients,  \* manage_wakelock's counter
    wakelock,     \* TRUE iff the file /tmp/wakelock exists
    pc,           \* per session: position of its handle_client thread
    staleness,    \* per session: handle_client's local `staleness`
    emitted,      \* per session: sequence of deltas it has sent so far
    probes,       \* per session: "." bytes written since the last read that returned data
    last,         \* per session: outcome of the last loop iteration
    readAt        \* per session: staleness at the time of the last read

vars == <<listener, senders, chan, coord, abortReason, num_clients, wakelock,
          pc, staleness, emitted, probes, last, readAt>>

coordVars == <<coord, abortReason, num_clients, wakelock>>
sessVars  == <<pc, staleness, emitted, probes, last, readAt>>

\* The process is alive as long as the main thread has not panicked.
Alive == coord # "aborted"

\* ---- pure helpers ----

\* Mutant: the call reports success without removing anything.
remove_file_keep(present, allowed) == [file |-> present, res |-> "Ok"]

\* std::fs::remove_file: succeeds only if the file exists and the OS allows it.
remove_file(present, allowed) ==
    IF present /\ allowed THEN [file |-> FALSE, res |-> "Ok"]
                          ELSE [file |-> present, res |-> "Err"]

\* Mutant: the call reports success without creating anything.
create_open_noop(present, allowed) == [file |-> present, res |-> "Ok"]

\* OpenOptions::new().create(true).open(..): on success the file exists.
\* (Standard libraries that reject `create` without write/append access make
\* every call fail: the case allowed = FALSE.)
create_open(present, allowed) ==
    IF allowed THEN [file |-> TRUE, res |-> "Ok"]
               ELSE [file |-> present, res |-> "Err"]

\* Mutant: the delta is subtracted instead of added.
AddDelta_sub(n, d) == n - d

\* Mutant: disconnect events are ignored.
AddDelta_ignoreNeg(n, d) == IF d < 0 THEN n ELSE n + d

\* Mutant: the counter saturates at 1 (a flag instead of a count).
AddDelta_clamp(n, d) == IF n + d > 1 THEN 1 ELSE n + d

\* `num_clients += rx.recv().unwrap()`
AddDelta(n, d) == n + d

\* Mutant: the loop stops one cycle early.
LoopCond_lt(st) == st < MaxStaleness

\* Mutant: the loop runs one cycle too many.
LoopCond_wide(st) == st <= MaxStaleness + 1

\* `while staleness <= 5`
LoopCond(st) == st <= MaxStaleness

\* Mutant: data does not reset the counter.
StaleAfterData_keep(st) == st

\* `Ok(_) => staleness = 0`
StaleAfterData(st) == 0

\* `Ok(_) => staleness += 1` (probe written)
StaleAfterProbe(st) == st + 1

\* `tx.send(1)`
ConnectDelta == 1

\* `tx.send(-1)`
DisconnectDelta == -1

SeqSum(q) == LET RECURSIVE Sum(_)
                 Sum(i) == IF i = 0 THEN 0 ELSE q[i] + Sum(i - 1)
             IN Sum(Len(q))

\* ---- initial state ----
\* The wakelock file may have been left behind by a previous run.
Init ==
    /\ listener = "binding"
    /\ senders = {Listener}
    /\ chan = <<>>
    /\ coord = "start"
    /\ abortReason = "none"
    /\ num_clients = 0
    /\ wakelock \in BOOLEAN
    /\ pc = [s \in Sessions |-> "unborn"]
    /\ staleness = [s \in Sessions |-> 0]
    /\ emitted = [s \in Sessions |-> <<>>]
    /\ probes = [s \in Sessions |-> 0]
    /\ last = [s \in Sessions |-> "none"]
    /\ readAt = [s \in Sessions |-> 0]

\* ---- listener thread (listen_for_clients) ----

\* TcpListener::bind(..).unwrap(): on failure the thread panics and drops tx.
Bind ==
    /\ Alive
    /\ listener = "binding"
    /\ \E ok \in BOOLEAN :
         IF ok THEN /\ listener' = "accepting"
                    /\ UNCHANGED senders
               ELSE /\ listener' = "panicked"
                    /\ senders' = senders \ {Listener}
    /\ UNCHANGED <<chan, coordVars, sessVars>>

\* Mutant: the listener's own Sender is moved into the thread, not a clone.
Accept_move(s) ==
    /\ Alive
    /\ listener = "accepting"
    /\ pc[s] = "unborn"
    /\ \A t \in Sessions : t < s => pc[t] # "unborn"
    /\ pc' = [pc EXCEPT ![s] = "greeting"]
    /\ senders' = (senders \ {Listener}) \cup {s}
    /\ UNCHANGED <<listener, chan, coordVars, staleness, emitted, probes, last,
                   readAt>>

\* Ok(stream): clone tx and spawn handle_client. Sessions are numbered in
\* accept order.
Accept(s) ==
    /\ Alive
    /\ listener = "accepting"
    /\ pc[s] = "unborn"
    /\ \A t \in Sessions : t < s => pc[t] # "unborn"
    /\ pc' = [pc EXCEPT ![s] = "greeting"]
    /\ senders' = senders \cup {s}
    /\ UNCHANGED <<listener, chan, coordVars, staleness, emitted, probes, last,
                   readAt>>

\* `_ => break`: the loop ends, the function returns and tx is dropped.
AcceptFail ==
    /\ Alive
    /\ listener = "accepting"
    /\ listener' = "stopped"
    /\ senders' = senders \ {Listener}
    /\ UNCHANGED <<chan, coordVars, sessVars>>

\* ---- session thread (handle_client) ----

\* peer_addr / set_read_timeout / set_write_timeout / write("hi"), all
\* unwrap()ed: success moves on to tx.send(1).
GreetOk(s) ==
    /\ Alive
    /\ pc[s] = "greeting"
    /\ pc' = [pc EXCEPT ![s] = "connected"]
    /\ UNCHANGED <<listener, senders, chan, coordVars, staleness, emitted,
                   probes, last, readAt>>

\* One of the unwrap()s of the greeting fails: the thread panics, dropping
\* its stream and its Sender without having sent anything.
GreetFail(s) ==
    /\ Alive
    /\ pc[s] = "greeting"
    /\ pc' = [pc EXCEPT ![s] = "panicked"]
    /\ senders' = senders \ {s}
    /\ UNCHANGED <<listener, chan, coordVars, staleness, emitted, probes, last,
                   readAt>>

\* Mutant: the +1 is sent first, in place of the greeting.
SendPlus_early(s) ==
    /\ Alive
    /\ pc[s] = "greeting"
    /\ chan' = Append(chan, ConnectDelta)
    /\ emitted' = [emitted EXCEPT ![s] = Append(@, ConnectDelta)]
    /\ staleness' = [staleness EXCEPT ![s] = 0]
    /\ pc' = [pc EXCEPT ![s] = "monitoring"]
    /\ UNCHANGED <<listener, senders, coordVars, probes, last, readAt>>

\* tx.send(1).unwrap(); let mut staleness = 0;
SendPlus(s) ==
    /\ Alive
    /\ pc[s] = "connected"
    /\ chan' = Append(chan, ConnectDelta)
    /\ emitted' = [emitted EXCEPT ![s] = Append(@, ConnectDelta)]
    /\ staleness' = [staleness EXCEPT ![s] = 0]
    /\ pc' = [pc EXCEPT ![s] = "monitoring"]
    /\ UNCHANGED <<listener, senders, coordVars, probes, last, readAt>>

\* Mutant: Ok(0) is handled like any other Ok(_): the loop goes on.
ReadZero_continues(s) ==
    /\ Alive
    /\ pc[s] = "monitoring"
    /\ LoopCond(staleness[s])
    /\ readAt' = [readAt EXCEPT ![s] = staleness[s]]
    /\ last' = [last EXCEPT ![s] = "zero"]
    /\ staleness' = [staleness EXCEPT ![s] = 0]
    /\ probes' = [probes EXCEPT ![s] = 0]
    /\ UNCHANGED <<listener, senders, chan, coordVars, pc, emitted>>

\* Loop iteration, read returns Ok(0): break.
ReadZero(s) ==
    /\ Alive
    /\ pc[s] = "monitoring"
    /\ LoopCond(staleness[s])
    /\ readAt' = [readAt EXCEPT ![s] = staleness[s]]
    /\ last' = [last EXCEPT ![s] = "zero"]
    /\ pc' = [pc EXCEPT ![s] = "terminated"]
    /\ UNCHANGED <<listener, senders, chan, coordVars, staleness, emitted,
                   probes>>

\* Mutant: a poke is written on every iteration, data or not.
ReadData_poke(s) ==
    /\ Alive
    /\ pc[s] = "monitoring"
    /\ LoopCond(staleness[s])
    /\ readAt' = [readAt EXCEPT ![s] = staleness[s]]
    /\ last' = [last EXCEPT ![s] = "data"]
    /\ staleness' = [staleness EXCEPT ![s] = 0]
    /\ probes' = [probes EXCEPT ![s] = 1]
    /\ UNCHANGED <<listener, senders, chan, coordVars, pc, emitted>>

\* Loop iteration, read returns Ok(n), n >= 1: staleness = 0.
ReadData(s) ==
    /\ Alive
    /\ pc[s] = "monitoring"
    /\ LoopCond(staleness[s])
    /\ readAt' = [readAt EXCEPT ![s] = staleness[s]]
    /\ last' = [last EXCEPT ![s] = "data"]
    /\ staleness' = [staleness EXCEPT ![s] = StaleAfterData(@)]
    /\ probes' = [probes EXCEPT ![s] = 0]
    /\ UNCHANGED <<listener, senders, chan, coordVars, pc, emitted>>

\* Loop iteration, read returns Err(_) (timeout or error), the poke
\* write(".") returns Ok(_): staleness += 1.
ReadErrPokeOk(s) ==
    /\ Alive
    /\ pc[s] = "monitoring"
    /\ LoopCond(staleness[s])
    /\ readAt' = [readAt EXCEPT ![s] = staleness[s]]
    /\ last' = [last EXCEPT ![s] = "poke_ok"]
    /\ staleness' = [staleness EXCEPT ![s] = StaleAfterProbe(@)]
    /\ probes' = [probes EXCEPT ![s] = @ + 1]
    /\ UNCHANGED <<listener, senders, chan, coordVars, pc, emitted>>

\* Mutant: on a failed poke the function returns instead of breaking, so the
\* -1 is never sent.
ReadErrPokeFail_return(s) ==
    /\ Alive
    /\ pc[s] = "monitoring"
    /\ LoopCond(staleness[s])
    /\ pc' = [pc EXCEPT ![s] = "done"]
    /\ senders' = senders \ {s}
    /\ staleness' = [staleness EXCEPT ![s] = 0]
    /\ probes' = [probes EXCEPT ![s] = 0]
    /\ last' = [last EXCEPT ![s] = "none"]
    /\ readAt' = [readAt EXCEPT ![s] = 0]
    /\ UNCHANGED <<listener, chan, coordVars, emitted>>

\* Loop iteration, read returns Err(_), the poke write fails: break.
ReadErrPokeFail(s) ==
    /\ Alive
    /\ pc[s] = "monitoring"
    /\ LoopCond(staleness[s])
    /\ readAt' = [readAt EXCEPT ![s] = staleness[s]]
    /\ last' = [last EXCEPT ![s] = "poke_fail"]
    /\ pc' = [pc EXCEPT ![s] = "terminated"]
    /\ UNCHANGED <<listener, senders, chan, coordVars, staleness, emitted,
                   probes>>

\* Mutant: at the threshold the counter is restarted and the loop goes on.
LoopExit_restart(s) ==
    /\ Alive
    /\ pc[s] = "monitoring"
    /\ ~LoopCond(staleness[s])
    /\ staleness' = [staleness EXCEPT ![s] = 0]
    /\ probes' = [probes EXCEPT ![s] = 0]
    /\ last' = [last EXCEPT ![s] = "none"]
    /\ readAt' = [readAt EXCEPT ![s] = 0]
    /\ UNCHANGED <<listener, senders, chan, coordVars, pc, emitted>>

\* The loop condition `staleness <= 5` is false: fall out of the loop.
LoopExit(s) ==
    /\ Alive
    /\ pc[s] = "monitoring"
    /\ ~LoopCond(staleness[s])
    /\ pc' = [pc EXCEPT ![s] = "terminated"]
    /\ UNCHANGED <<listener, senders, chan, coordVars, staleness, emitted,
                   probes, last, readAt>>

\* tx.send(-1).unwrap(); println; return: the stream and tx are dropped and
\* the thread's locals cease to exist.
SendMinus(s) ==
    /\ Alive
    /\ pc[s] = "terminated"
    /\ chan' = Append(chan, DisconnectDelta)
    /\ emitted' = [emitted EXCEPT ![s] = Append(@, DisconnectDelta)]
    /\ pc' = [pc EXCEPT ![s] = "done"]
    /\ senders' = senders \ {s}
    /\ staleness' = [staleness EXCEPT ![s] = 0]
    /\ probes' = [probes EXCEPT ![s] = 0]
    /\ last' = [last EXCEPT ![s] = "none"]
    /\ readAt' = [readAt EXCEPT ![s] = 0]
    /\ UNCHANGED <<listener, coordVars>>

SessionStep(s) ==
    \/ GreetOk(s) \/ GreetFail(s) \/ SendPlus(s)
    \/ ReadZero(s) \/ ReadData(s) \/ ReadErrPokeOk(s) \/ ReadErrPokeFail(s)
    \/ LoopExit(s) \/ SendMinus(s)

\* ---- coordinator (manage_wakelock on the main thread) ----

\* `let _ = std::fs::remove_file(WAKELOCK_FILE);` -- the result is discarded.
Startup ==
    /\ coord = "start"
    /\ \E allowed \in BOOLEAN :
         wakelock' = remove_file(wakelock, allowed).file
    /\ coord' = "recv"
    /\ UNCHANGED <<listener, senders, chan, abortReason, num_clients, sessVars>>

\* Mutant: the count-0 arm also takes the count 1 (`0 | 1 => remove`).
MatchArm_removeAtOne(n) ==
    IF n < 0 THEN "panic" ELSE IF n <= 1 THEN "remove" ELSE "create"

\* Mutant: the first arm also takes negative counts (`n if n <= 0`).
MatchArm_leZero(n) == IF n <= 0 THEN "remove" ELSE "create"

\* `match num_clients { 0 => .., n if n > 0 => .., _ => panic!(..) }`
MatchArm(n) == IF n = 0 THEN "remove" ELSE IF n > 0 THEN "create" ELSE "panic"

\* One iteration of the loop with a message available:
\* num_clients += rx.recv().unwrap(); match num_clients { .. }
Recv ==
    /\ coord = "recv"
    /\ chan # <<>>
    /\ chan' = Tail(chan)
    /\ LET n == AddDelta(num_clients, Head(chan))
           arm == MatchArm(n)
       IN
       /\ num_clients' = n
       /\ \E allowed \in BOOLEAN :
            LET r == IF arm = "remove" THEN remove_file(wakelock, allowed)
                                       ELSE create_open(wakelock, allowed)
            IN  CASE arm = "panic" ->
                       /\ coord' = "aborted"
                       /\ abortReason' = "negative"
                       /\ UNCHANGED wakelock
                  [] arm = "remove" /\ r.res = "Ok" ->
                       /\ wakelock' = r.file
                       /\ UNCHANGED <<coord, abortReason>>
                  [] arm = "remove" /\ r.res = "Err" ->
                       /\ coord' = "aborted"
                       /\ abortReason' = "remove_failed"
                       /\ wakelock' = r.file
                  [] arm = "create" /\ r.res = "Ok" ->
                       /\ wakelock' = r.file
                       /\ UNCHANGED <<coord, abortReason>>
                  [] arm = "create" /\ r.res = "Err" ->
                       /\ coord' = "aborted"
                       /\ abortReason' = "create_failed"
                       /\ wakelock' = r.file
    /\ UNCHANGED <<listener, senders, sessVars>>

\* rx.recv() returns Err when the queue is empty and every Sender has been
\* dropped; unwrap() then panics.
RecvDisconnected ==
    /\ coord = "recv"
    /\ chan = <<>>
    /\ senders = {}
    /\ coord' = "aborted"
    /\ abortReason' = "disconnected"
    /\ UNCHANGED <<listener, senders, chan, num_clients, wakelock, sessVars>>

Next ==
    \/ Bind
    \/ AcceptFail
    \/ \E s \in Sessions : Accept(s)
    \/ \E s \in Sessions : GreetOk(s)
    \/ \E s \in Sessions : GreetFail(s)
    \/ \E s \in Sessions : SendPlus(s)
    \/ \E s \in Sessions : ReadZero(s)
    \/ \E s \in Sessions : ReadData(s)
    \/ \E s \in Sessions : ReadErrPokeOk(s)
    \/ \E s \in Sessions : ReadErrPokeFail(s)
    \/ \E s \in Sessions : LoopExit(s)
    \/ \E s \in Sessions : SendMinus(s)
    \/ Startup
    \/ Recv
    \/ RecvDisconnected

Spec == Init /\ [][Next]_vars

\* Threads are scheduled by the OS and every blocking call of a session
\* returns (the read after at most KEEPALIVE_SECONDS, the write after at most
\* 5 s), so a thread that can take a step eventually takes one.  Nothing
\* forces a peer to connect or an accept to fail, so the accept loop is not
\* subject to fairness.
FairSpec ==
    /\ Spec
    /\ WF_vars(Startup)
    /\ WF_vars(Recv)
    /\ WF_vars(RecvDisconnected)
    /\ \A s \in Sessions : WF_vars(SessionStep(s))

\* manage_wakelock on its own, as a function of what its Receiver delivers:
\* the channel holds an arbitrary sequence of +1 / -1 (sequences no set of
\* handle_client threads would produce included) and every Sender is gone.
EventSeqs == UNION {[1..k -> {ConnectDelta, DisconnectDelta}] : k \in 0..MaxEvents}

CoordInit ==
    /\ listener = "stopped"
    /\ senders = {}
    /\ chan \in EventSeqs
    /\ coord = "start"
    /\ abortReason = "none"
    /\ num_clients = 0
    /\ wakelock \in BOOLEAN
    /\ pc = [s \in Sessions |-> "unborn"]
    /\ staleness = [s \in Sessions |-> 0]
    /\ emitted = [s \in Sessions |-> <<>>]
    /\ probes = [s \in Sessions |-> 0]
    /\ last = [s \in Sessions |-> "none"]
    /\ readAt = [s \in Sessions |-> 0]

CoordNext ==
    \/ Startup
    \/ Recv
    \/ RecvDisconnected

CoordSpec == CoordInit /\ [][CoordNext]_vars

TypeOK ==
    /\ listener \in {"binding", "accepting", "stopped", "panicked"}
    /\ senders \subseteq ({Listener} \cup Sessions)
    /\ coord \in {"start", "recv", "aborted"}
    /\ num_clients \in Int
    /\ wakelock \in BOOLEAN
    /\ \A s \in Sessions : staleness[s] \in 0..(MaxStaleness + 1)

\* ---- derived notions used by the properties ----

\* Number of deltas equal to d that session s has sent.
EmCount(s, d) == Cardinality({i \in 1..Len(emitted[s]) : emitted[s][i] = d})

\* Sessions that have emitted +1 but not yet -1.
Connected == {s \in Sessions : EmCount(s, 1) > EmCount(s, -1)}

RECURSIVE TotalEmitted(_)
TotalEmitted(S) ==
    IF S = {} THEN 0
    ELSE LET s == CHOOSE x \in S : TRUE
         IN Len(emitted[s]) + TotalEmitted(S \ {s})

\* Number of events the coordinator has taken out of the channel.
Processed == TotalEmitted(Sessions) - Len(chan)

\* ---- C1 ----
\* C1: in every reachable state num_clients is >= 0 and the main thread has
\* never taken the `panic!("...negative clients!")` branch.
C1_NeverNegative == num_clients >= 0 /\ abortReason # "negative"

\* Two sessions have come and gone and every event has been processed.
C1_Witness ==
    /\ coord = "recv" /\ chan = <<>> /\ num_clients = 0
    /\ Cardinality({s \in Sessions : pc[s] = "done"}) >= 2

\* ---- C2 ----
\* C2 (as stated): in every reachable state num_clients equals the number of
\* sessions that have emitted +1 but not yet -1.
C2_Original == num_clients = Cardinality(Connected)

\* C2 (amended): in every reachable state num_clients plus the sum of the
\* deltas still in the channel equals the number of sessions that have
\* emitted +1 but not yet -1; with an empty channel the two are equal.
C2_CountPlusInFlight == num_clients + SeqSum(chan) = Cardinality(Connected)

\* Two sessions are connected, one +1 is processed and the other in flight.
C2_Witness ==
    /\ Cardinality(Connected) = 2 /\ num_clients = 1 /\ chan = <<1>>

\* ---- C3 ----
\* C3: whenever the coordinator is between events (startup done, waiting in
\* recv), the wakelock file exists iff num_clients > 0.
C3_Original == coord = "recv" => (wakelock <=> num_clients > 0)

\* ---- C9 ----
\* C9: after the accept loop has ended on an accept failure the coordinator
\* never aborts as a consequence, i.e. never panics on a disconnected recv.
C9_Original == listener = "stopped" => abortReason # "disconnected"

\* ---- C10 ----
\* C10: once startup is done and before the first event is processed, the
\* wakelock file is absent and num_clients is 0.
C10_Original ==
    (coord = "recv" /\ Processed = 0) => (~wakelock /\ num_clients = 0)

\* ---- C4 ----
\* C4 (as stated): every session that has ended, whichever way (failure
\* during the greeting included), has emitted exactly +1 then -1.
C4_Original ==
    \A s \in Sessions : pc[s] \in {"done", "panicked"} => emitted[s] = <<1, -1>>

\* C4 (amended): a session whose greeting fails emits nothing; every other
\* session emits +1 once when the greeting is done and -1 once when it leaves
\* the loop (zero-byte read, failed poke, staleness above 5), in that order.
C4_Pairing ==
    \A s \in Sessions :
        /\ pc[s] \in {"unborn", "greeting", "connected", "panicked"}
              => emitted[s] = <<>>
        /\ pc[s] \in {"monitoring", "terminated"} => emitted[s] = <<1>>
        /\ pc[s] = "done" => emitted[s] = <<1, -1>>

\* One session failed in the greeting and another ran to its end.
C4_Witness ==
    \E s, t \in Sessions : pc[s] = "panicked" /\ pc[t] = "done"

\* ---- C5 ----
\* C5 (as stated): every session that has emitted +1 eventually emits -1
\* (or the process has aborted meanwhile), whatever the peer does.
C5_Original ==
    \A s \in Sessions :
        (emitted[s] = <<1>>) ~> (emitted[s] = <<1, -1>> \/ coord = "aborted")

\* C5 (amended): every session that has emitted +1 and whose reads
\* eventually stop returning data eventually emits -1, unless the process
\* aborts first.
C5_Amended ==
    \A s \in Sessions :
        <>[](last[s] # "data")
          => ((emitted[s] = <<1>>) ~> (emitted[s] = <<1, -1>> \/ coord = "aborted"))

\* A session has emitted +1 and -1 and the running coordinator has processed
\* both.
C5_Witness ==
    \E s \in Sessions :
        emitted[s] = <<1, -1>> /\ coord = "recv" /\ chan = <<>>

\* ---- C6 ----
\* C6: a session leaves the loop through the staleness condition after
\* exactly 6 consecutive timeout cycles with a successful poke each (6 pokes
\* since the last data, or since the start if no data came), never fewer and
\* never more.
C6_ExactlySix ==
    \A s \in Sessions :
        /\ probes[s] <= MaxStaleness + 1
        /\ (pc[s] = "terminated" /\ last[s] = "poke_ok")
              => (probes[s] = 6 /\ staleness[s] = 6 /\ readAt[s] = 5)
        /\ (pc[s] = "monitoring" /\ last[s] = "none") => probes[s] = 0

\* A session has left the loop because of staleness.
C6_Witness ==
    \E s \in Sessions :
        pc[s] = "terminated" /\ last[s] = "poke_ok" /\ probes[s] = 6

\* ---- C7 ----
\* C7: a read of 0 bytes ends the loop at once at any staleness: the session
\* is out of the loop with staleness and poke count as they were at the
\* read, and the next thing it emits is -1.
C7_ZeroInv ==
    \A s \in Sessions :
        last[s] = "zero" =>
            /\ pc[s] = "terminated"
            /\ emitted[s] = <<1>>
            /\ staleness[s] = readAt[s]
            /\ probes[s] = readAt[s]

C7_ZeroStep ==
    \A s \in Sessions :
        last[s] = "zero" =>
            \/ <<pc[s], emitted[s], probes[s]>>' = <<pc[s], emitted[s], probes[s]>>
            \/ emitted'[s] = <<1, -1>> /\ probes'[s] <= probes[s]

C7_ZeroReadTerminates == []C7_ZeroInv /\ [][C7_ZeroStep]_vars

\* Zero-byte reads have ended one session at staleness 0 and another at 5.
C7_Witness ==
    \E s, t \in Sessions :
        /\ last[s] = "zero" /\ readAt[s] = 0 /\ pc[s] = "terminated"
        /\ last[t] = "zero" /\ readAt[t] = MaxStaleness /\ pc[t] = "terminated"

\* ---- C8 ----
\* C8: after a read that returned data staleness is 0 whatever it was, and
\* the session is still in the loop; staleness counts only the pokes since
\* the last data.
C8_DataResets ==
    \A s \in Sessions :
        /\ last[s] = "data" => (staleness[s] = 0 /\ pc[s] = "monitoring")
        /\ staleness[s] = probes[s]

\* Data arrived when staleness was 5.
C8_Witness ==
    \E s \in Sessions :
        last[s] = "data" /\ readAt[s] = MaxStaleness /\ staleness[s] = 0

\* ---- C11 ----
\* C11: while the coordinator waits with a positive count the wakelock file
\* exists, and no step that leaves the count positive removes it (a -1 that
\* takes the count from 2 to 1 included); with two sessions connected and
\* both +1 processed the count is 2.
C11_PresentInv ==
    /\ (coord = "recv" /\ num_clients > 0) => wakelock
    /\ (chan = <<>> /\ Cardinality(Connected) = 2) => num_clients = 2

C11_KeepStep == (wakelock /\ num_clients' > 0) => wakelock'

C11_PresentWhilePositive == []C11_PresentInv /\ [][C11_KeepStep]_vars

\* Two sessions were connected (count 2); the -1 of one of them has been
\* processed and the file is still there for the other.
C11_Witness ==
    \E s, t \in Sessions :
        /\ emitted[s] = <<1, -1>> /\ emitted[t] = <<1>> /\ pc[t] = "monitoring"
        /\ chan = <<>> /\ coord = "recv" /\ num_clients = 1 /\ wakelock

\* ---- C12 ----
\* C12: with every emitted event processed, the count equals the number of
\* sessions still connected; once some session has come and gone and none is
\* connected, the count is 0 and the wakelock file is absent.
C12_BackToZero ==
    (coord = "recv" /\ chan = <<>>) =>
        /\ num_clients = Cardinality(Connected)
        /\ (Connected = {} /\ Processed > 0) => (num_clients = 0 /\ ~wakelock)

\* One session has terminated, both its events are processed, nobody else
\* is connected.
C12_Witness ==
    /\ coord = "recv" /\ chan = <<>> /\ Connected = {}
    /\ Processed = 2 /\ num_clients = 0 /\ ~wakelock

\* ---- C13 ----
\* C13: a session in the loop with staleness 0 and no poke written stays so
\* through every step other than a read that returns no data (so with only
\* data-bearing reads it never pokes, never leaves the loop and keeps
\* staleness 0); and the poke count grows only in a step whose read failed,
\* by exactly one.
Quiet(s) ==
    /\ pc[s] = "monitoring" /\ staleness[s] = 0 /\ probes[s] = 0
    /\ last[s] \in {"none", "data"}

C13_Step ==
    \A s \in Sessions :
        /\ (Quiet(s) /\ last'[s] \in {"none", "data"}) => Quiet(s)'
        /\ probes'[s] > probes[s] =>
              /\ last'[s] = "poke_ok"
              /\ readAt'[s] = staleness[s]
              /\ probes'[s] = probes[s] + 1

C13_DataNeverProbes == [][C13_Step]_vars

\* A read has returned data to a session that had never been poked.
C13_Witness ==
    \E s \in Sessions : Quiet(s) /\ last[s] = "data" /\ readAt[s] = 0

\* ---- C14 ----
\* C14: once a non-empty set of emitted events has been processed, the count
\* is the sum of those events and the file exists iff that sum is positive:
\* both are functions of the events alone, not of the order in which the
\* sessions' events were queued.
RECURSIVE EmittedSum(_)
EmittedSum(S) ==
    IF S = {} THEN 0
    ELSE LET s == CHOOSE x \in S : TRUE
         IN SeqSum(emitted[s]) + EmittedSum(S \ {s})

C14_OrderIndependent ==
    (coord = "recv" /\ chan = <<>> /\ Processed > 0) =>
        /\ num_clients = EmittedSum(Sessions)
        /\ wakelock <=> EmittedSum(Sessions) > 0

\* Three events of two sessions have been processed (+1, +1, -1 in either
\* of their possible orders).
C14_Witness ==
    /\ coord = "recv" /\ chan = <<>> /\ Processed = 3
    /\ num_clients = 1 /\ wakelock

\* ---- C15 ----
\* C15: whenever an event makes num_clients negative the main thread panics
\* in the `_` arm and the wakelock file is left as it was; and that happens
\* only for a -1 received at count 0, i.e. a -1 with no unmatched +1 before
\* it (checked on manage_wakelock fed arbitrary event sequences; with the
\* real sessions the branch is unreachable, C1).
C15_Step ==
    /\ num_clients' < 0 =>
          /\ coord = "recv" /\ coord' = "aborted" /\ abortReason' = "negative"
          /\ wakelock' = wakelock
          /\ num_clients = 0 /\ Head(chan) = DisconnectDelta
    /\ abortReason' = "negative" => num_clients' < 0

C15_NegativeAborts == [][C15_Step]_vars

\* The panic has been taken at count -1 with the file present and untouched.
C15_Witness == abortReason = "negative" /\ num_clients = -1 /\ wakelock

\* ---- C16 ----
\* The session's TcpStream exists from the accept to the end of its thread.
ConnOpen(s) == pc[s] \in {"greeting", "connected", "monitoring", "terminated"}

\* A step in which session s gets an I/O error: the greeting fails, or a
\* read returns Err (followed by the poke, written or failed).
IoErrorStep(s) ==
    \/ pc[s] = "greeting" /\ pc'[s] = "panicked"
    \/ pc[s] = "monitoring" /\ probes'[s] = probes[s] + 1
    \/ pc[s] = "monitoring" /\ pc'[s] = "terminated" /\ last'[s] = "poke_fail"

\* The coordinator's pending recv() can only fail: queue empty, no Sender.
RecvMustFail == chan = <<>> /\ senders = {}

\* C16: an I/O error of one session touches nothing outside that session:
\* not the coordinator, the listener or any other session, and it does not
\* bring the coordinator down (its recv does not become a certain failure).
C16_Step ==
    \A s \in Sessions :
        IoErrorStep(s) =>
            /\ UNCHANGED <<coordVars, listener, chan>>
            /\ \A t \in Sessions \ {s} :
                  UNCHANGED <<pc[t], staleness[t], emitted[t], probes[t],
                              last[t], readAt[t]>>
            /\ ~RecvMustFail'

C16_Original == [][C16_Step]_vars

\* ---- C17 ----
\* C17: within a session the +1 is sent only after the greeting and before
\* any read, reads happen only after the +1, the -1 is sent while the
\* connection is still open, and nothing is sent once it is closed.
C17_Step ==
    \A s \in Sessions :
        /\ (emitted[s] = <<>> /\ emitted'[s] # <<>>) =>
              /\ pc[s] = "connected" /\ last[s] = "none"
              /\ emitted'[s] = <<1>> /\ pc'[s] = "monitoring"
        /\ (<<last[s], readAt[s]>>' # <<last[s], readAt[s]>> /\ last'[s] # "none") =>
              /\ emitted[s] = <<1>> /\ pc[s] = "monitoring"
        /\ (emitted[s] = <<1>> /\ emitted'[s] # <<1>>) =>
              /\ emitted'[s] = <<1, -1>>
              /\ ConnOpen(s) /\ pc[s] = "terminated" /\ ~ConnOpen(s)'
        /\ (~ConnOpen(s) /\ pc[s] # "unborn") => emitted'[s] = emitted[s]

C17_SessionOrder == [][C17_Step]_vars

\* One session has run through greeting, +1, reads and -1; another has
\* sent its +1 and has read since.
C17_Witness ==
    \E s, t \in Sessions :
        /\ pc[s] = "done" /\ emitted[s] = <<1, -1>>
        /\ pc[t] = "monitoring" /\ emitted[t] = <<1>> /\ last[t] = "data"

\* ---- C18 ----
\* C18: staleness is always in 0..6 and the poke count since the last data
\* in 0..6; every read was attempted at a staleness in 0..5; staleness 6
\* occurs only between the sixth poke and the exit of the loop, where the
\* only step of the session is to leave the loop without reading.
C18_Inv ==
    \A s \in Sessions :
        /\ staleness[s] \in 0..(MaxStaleness + 1)
        /\ probes[s] \in 0..(MaxStaleness + 1)
        /\ readAt[s] \in 0..MaxStaleness
        /\ staleness[s] = MaxStaleness + 1 =>
              (pc[s] \in {"monitoring", "terminated"} /\ last[s] = "poke_ok")

C18_ExitStep ==
    \A s \in Sessions :
        (pc[s] = "monitoring" /\ staleness[s] = MaxStaleness + 1) =>
            /\ UNCHANGED <<staleness[s], probes[s], last[s], readAt[s], emitted[s]>>
            /\ pc'[s] \in {"monitoring", "terminated"}

C18_StalenessRange == []C18_Inv /\ [][C18_ExitStep]_vars

\* A session stands at the loop condition with staleness 6.
C18_Witness ==
    \E s \in Sessions : pc[s] = "monitoring" /\ staleness[s] = MaxStaleness + 1

\* ---- C19 ----
\* C19: whenever a received event brings the count to 0 the count was 1 and
\* the wakelock file exists, so the remove_file of the count-0 arm never
\* fails for lack of the file; if it panics, the file is still there (the
\* system refused the removal).
C19_RemoveStep ==
    (coord = "recv" /\ Len(chan') = Len(chan) - 1 /\ num_clients' = 0) =>
        (num_clients = 1 /\ wakelock)

C19_AbortInv == abortReason = "remove_failed" => wakelock

C19_RemoveOnlyWhenPresent == []C19_AbortInv /\ [][C19_RemoveStep]_vars

\* The count-0 arm has removed the file while further events are queued.
C19_Witness ==
    /\ coord = "recv" /\ num_clients = 0 /\ Processed >= 2
    /\ ~wakelock /\ chan # <<>>

\* ---- C20 ----
\* C20: while the listener thread is alive it holds a Sender, each live
\* session holds one, and recv() has not failed; the disconnected panic
\* occurs only with the listener gone, no Sender left and every accepted
\* session ended.
C20_RecvFailsOnlyWhenAllGone ==
    /\ listener \in {"binding", "accepting"} =>
          (Listener \in senders /\ abortReason # "disconnected")
    /\ \A s \in Sessions : s \in senders <=> ConnOpen(s)
    /\ abortReason = "disconnected" =>
          /\ listener \in {"stopped", "panicked"}
          /\ senders = {} /\ chan = <<>>
          /\ \A s \in Sessions : ~ConnOpen(s)

\* recv() has failed after the accept loop ended and a session came and went.
C20_Witness ==
    /\ abortReason = "disconnected" /\ listener = "stopped"
    /\ \E s \in Sessions : pc[s] = "done"
====
